---- MODULE Spec2Model ----
(***************************************************************************)
(* A model of scripts/generate_site.py, the static site generator that     *)
(* turns <src>/posts/**/*.md into index.html, posts/<slug>.html,           *)
(* sitemap.xml, robots.txt and _headers.                                   *)
(*                                                                         *)
(* Text is a sequence of characters, each a one-character string; the      *)
(* horizontal ellipsis U+2026 is written "U+2026".  A URL is a sequence of *)
(* tokens: "/" is the slash character, every other token is a run of       *)
(* characters without a slash, except the first token of an absolute URL,  *)
(* which is its scheme and authority ("https://x.com").                    *)
(*                                                                         *)
(* Templates are taken to exist and to render; file system operations are  *)
(* taken to succeed.                                                       *)
(***************************************************************************)
EXTENDS Integers, Sequences, FiniteSets, TLC

VARIABLES
    tree,        \* the project on disk: posts directory, its documents, assets/
    config,      \* the config file: whether it exists, and its base_url
    out,         \* the output directory
    pc,          \* main's position
    err,         \* the exception that ended main ("" while none)
    posts,       \* load_posts' list, then main's posts
    md,          \* the state of the reused markdown.Markdown instance
    todo,        \* load_posts: the paths the for loop has still to visit
    routes,      \* main's routes
    urls,        \* generate_posts' urls
    k,           \* generate_posts: index of the next post to render
    outAtStart,  \* history: the output directory when main was invoked
    lastOut,     \* history: <<the output of the last build completed before
                 \* this invocation>>, <<>> when there was none
    text,        \* build_excerpt's argument (excerpt specification)
    excerpt,     \* build_excerpt's result, as <<result>> (<<>> before the call)
    epc          \* position of the excerpt specification

vars == <<tree, config, out, pc, err, posts, md, todo, routes, urls, k,
          outAtStart, lastOut, text, excerpt, epc>>

buildVars == <<tree, config, out, pc, err, posts, md, todo, routes, urls, k,
               outAtStart, lastOut>>

excerptVars == <<text, excerpt, epc>>

(***************************************************************************)
(* Bounds                                                                  *)
(***************************************************************************)
\* the largest number of documents under posts/
MaxDocs == 2
\* the longest run of arbitrary characters placed around the excerpt cut
MaxWin == 2

(***************************************************************************)
(* Program constants                                                       *)
(***************************************************************************)
\* build_excerpt's default length
DefaultLength == 140

\* the character build_excerpt appends
Ellipsis == "U+2026"

Placeholder == <<"https://example.com">>

DefaultTitle == "My Blog"

(***************************************************************************)
(* Sequence helpers                                                        *)
(***************************************************************************)
Min(a, b) == IF a <= b THEN a ELSE b

Front(s) == SubSeq(s, 1, Len(s) - 1)

Last(s) == s[Len(s)]

(***************************************************************************)
(* str methods used by build_excerpt                                       *)
(***************************************************************************)
\* str.isspace for the characters of the model
IsSpace(c) == c \in {" ", "\t", "\n"}

\* the line boundaries of str.splitlines among the characters of the model
IsLineBreak(c) == c = "\n"

\* str.lstrip() and str.rstrip(): whitespace removed at one end
LStrip(s) ==
    LET keep == {i \in 1..Len(s) : ~IsSpace(s[i])}
    IN  IF keep = {} THEN <<>>
        ELSE SubSeq(s, CHOOSE i \in keep : \A j \in keep : i <= j, Len(s))

RStrip(s) ==
    LET keep == {i \in 1..Len(s) : ~IsSpace(s[i])}
    IN  IF keep = {} THEN <<>>
        ELSE SubSeq(s, 1, CHOOSE i \in keep : \A j \in keep : j <= i)

Strip(s) == RStrip(LStrip(s))

\* the n-th smallest element of a set of numbers
Nth(S, n) == CHOOSE x \in S : Cardinality({y \in S : y < x}) = n - 1

\* str.splitlines: the lines of s without their line breaks; a line break at
\* the very end opens no further line
SplitLines(s) ==
    LET breaks == {i \in 1..Len(s) : IsLineBreak(s[i])}
        ends == breaks \cup (IF s # <<>> /\ ~IsLineBreak(Last(s)) THEN {Len(s) + 1} ELSE {})
    IN  [n \in 1..Cardinality(ends) |->
            SubSeq(s, IF n = 1 THEN 1 ELSE Nth(ends, n - 1) + 1, Nth(ends, n) - 1)]

\* str.split(): the maximal runs of non-whitespace characters
Split(s) ==
    LET starts == {i \in 1..Len(s) : ~IsSpace(s[i]) /\ (i = 1 \/ IsSpace(s[i - 1]))}
        stops == {i \in 1..Len(s) : ~IsSpace(s[i]) /\ (i = Len(s) \/ IsSpace(s[i + 1]))}
    IN  [n \in 1..Cardinality(starts) |-> SubSeq(s, Nth(starts, n), Nth(stops, n))]

\* " ".join(parts)
RECURSIVE JoinSpace(_)
JoinSpace(parts) ==
    IF parts = <<>> THEN <<>>
    ELSE IF Len(parts) = 1 THEN parts[1]
    ELSE parts[1] \o <<" ">> \o JoinSpace(Tail(parts))

StripEach(lines) == [i \in 1..Len(lines) |-> Strip(lines[i])]

\* the text after build_excerpt's two joins
Collapse(t) == JoinSpace(Split(JoinSpace(StripEach(SplitLines(t)))))

\* plain[: n] for n >= 0
Prefix(s, n) == SubSeq(s, 1, Min(n, Len(s)))

\* a plausible slip: the cut is not right-stripped before the ellipsis
build_excerpt_nostrip(t, length) ==
    LET plain == Collapse(t)
    IN  IF Len(plain) <= length THEN plain
        ELSE Prefix(plain, length - 1) \o <<Ellipsis>>

build_excerpt(t, length) ==
    LET plain == Collapse(t)
    IN  IF Len(plain) <= length THEN plain
        ELSE RStrip(Prefix(plain, length - 1)) \o <<Ellipsis>>

(***************************************************************************)
(* The source tree                                                         *)
(***************************************************************************)
\* A path below posts/ is the sequence of its parts, the last one the file's
\* stem (".md" left out).  "d" is a directory.
Paths == {<<"a">>, <<"b">>, <<"d", "a">>}

\* the order of str on the parts "a.md", "b.md", "d"
Rank(part) == CASE part = "a" -> 1 [] part = "b" -> 2 [] part = "d" -> 3

\* PurePath.__lt__: the parts compared as sequences
RECURSIVE PathLess(_, _)
PathLess(p, q) ==
    IF p = <<>> THEN q # <<>>
    ELSE IF q = <<>> THEN FALSE
    ELSE IF Rank(Head(p)) # Rank(Head(q)) THEN Rank(Head(p)) < Rank(Head(q))
    ELSE PathLess(Tail(p), Tail(q))

\* sorted(posts_dir.rglob("*.md"))
RECURSIVE SortedPaths(_)
SortedPaths(S) ==
    IF S = {} THEN <<>>
    ELSE LET first == CHOOSE p \in S : \A q \in S \ {p} : PathLess(p, q)
         IN  <<first>> \o SortedPaths(S \ {first})

\* path.stem
Stem(p) == Last(p)

\* Raw front-matter values.  A date is 0 when the key is absent (or its value
\* is empty), -1 when it does not match DATE_FORMAT, else the day it names.
\* A slug or title is "" when absent.
Absent == 0
Malformed == -1
Days == {1, 2}

\* The bodies: body 1 defines the link reference "r" and has a long text,
\* body 2 uses the reference "r" without defining it.
Bodies == {1, 2}
BodyDefs(b) == IF b = 1 THEN {"r"} ELSE {}
BodyUses(b) == IF b = 2 THEN {"r"} ELSE {}
BodyText(b) ==
    IF b = 1 THEN <<"x", " ", " ", "y", "\n">> ELSE <<" ", "z", "\n", "\n", "w">>

\* The front matter and body of a document; wellformed is whether
\* frontmatter.load can parse it.  A field the code never reads for a document
\* (because it is skipped as a draft, or load_posts raises first) is held at
\* one value.
Broken ==
    [wellformed : {FALSE}, draft : {FALSE}, title : {""}, date : {Absent},
     updated : {Absent}, slug : {""}, body : {1}]
Drafts ==
    [wellformed : {TRUE}, draft : {TRUE}, title : {""}, date : {Absent, 1},
     updated : {Absent}, slug : {"a"}, body : {1}]
Undated ==
    [wellformed : {TRUE}, draft : {FALSE}, title : {""},
     date : {Absent, Malformed}, updated : {Absent}, slug : {""}, body : {1}]
Dated ==
    [wellformed : {TRUE}, draft : {FALSE}, title : {""}, date : Days,
     updated : {Absent}, slug : {"", "a"}, body : Bodies]
    \cup [wellformed : {TRUE}, draft : {FALSE}, title : {"t"}, date : {1},
          updated : {Malformed, 2}, slug : {""}, body : {1}]
Docs == Broken \cup Drafts \cup Undated \cup Dated

\* the source trees with at most MaxDocs documents; no posts directory means
\* no documents
Trees ==
    { t \in [postsDir : BOOLEAN, assets : BOOLEAN,
             files : UNION { [S -> Docs] : S \in { S \in SUBSET Paths : Cardinality(S) <= MaxDocs } }] :
        ~t.postsDir => DOMAIN t.files = {} }

(***************************************************************************)
(* The Markdown converter (markdown.Markdown with "extra"): its state is   *)
(* the set of link references defined so far; convert adds the document's  *)
(* definitions and resolves the document's uses against the state.         *)
(***************************************************************************)
FreshMd == {}

\* a plausible slip: the converter is reused without reset
md_reset_missing(state) == state

\* md.reset()
md_reset(state) == FreshMd

\* md.convert(source): the HTML and the state left behind
md_convert(state, b) ==
    [html |-> [body |-> b, resolved |-> BodyUses(b) \cap (state \cup BodyDefs(b))],
     state |-> state \cup BodyDefs(b)]

(***************************************************************************)
(* load_posts                                                              *)
(***************************************************************************)
FrontMatterError == "frontmatter: cannot parse the metadata block"

\* post_data = frontmatter.load(path): what it raises ("" when nothing)
load_error(doc) == IF doc.wellformed THEN "" ELSE FrontMatterError

\* a plausible slip: the draft flag is never honoured
is_draft_ignored(doc) == FALSE

\* meta.get("draft", False)
is_draft(doc) == doc.draft

MissingDate == "ValueError: Missing 'date' in front matter"
BadDate == "ValueError: time data does not match format"

\* a plausible slip: a document without a date is let through
date_error_lenient(doc) ==
    IF doc.date = Malformed \/ doc.updated = Malformed THEN BadDate ELSE ""

\* what the date handling of one loop iteration raises ("" when nothing):
\* a missing date first, then strptime on date and on updated
date_error(doc) ==
    IF doc.date = Absent THEN MissingDate
    ELSE IF doc.date = Malformed \/ doc.updated = Malformed THEN BadDate
    ELSE ""

\* the Post of the document at path p, converted by a converter in `state`;
\* src is not a field of Post: it names the document the Post was made from
MakePost(p, doc, state) ==
    [title   |-> IF doc.title # "" THEN doc.title ELSE Stem(p),
     slug    |-> IF doc.slug # "" THEN doc.slug ELSE Stem(p),
     date    |-> doc.date,
     updated |-> doc.updated,
     content |-> md_convert(md_reset(state), doc.body).html,
     excerpt |-> build_excerpt(BodyText(doc.body), DefaultLength),
     src     |-> p]

\* a plausible slip: sorting ascending and reversing, which reverses the ties
InsertByDateTiesFirst(sorted, post) ==
    LET n == Cardinality({i \in 1..Len(sorted) : sorted[i].date > post.date})
    IN  SubSeq(sorted, 1, n) \o <<post>> \o SubSeq(sorted, n + 1, Len(sorted))

\* one post put into a list ordered by date descending, after the posts of
\* its own date
InsertByDate(sorted, post) ==
    LET n == Cardinality({i \in 1..Len(sorted) : sorted[i].date >= post.date})
    IN  SubSeq(sorted, 1, n) \o <<post>> \o SubSeq(sorted, n + 1, Len(sorted))

\* posts.sort(key=lambda p: p.date, reverse=True): stable, equal dates keep
\* their order
RECURSIVE SortByDateDesc(_)
SortByDateDesc(ps) ==
    IF ps = <<>> THEN <<>>
    ELSE InsertByDate(SortByDateDesc(Front(ps)), Last(ps))

(***************************************************************************)
(* URLs and routes                                                         *)
(***************************************************************************)
RECURSIVE RStripSlash(_)
RStripSlash(u) ==
    IF u # <<>> /\ Last(u) = "/" THEN RStripSlash(Front(u)) ELSE u

RECURSIVE LStripSlash(_)
LStripSlash(u) ==
    IF u # <<>> /\ Head(u) = "/" THEN LStripSlash(Tail(u)) ELSE u

\* the base URL up to and including its last slash
RECURSIVE UpToLastSlash(_)
UpToLastSlash(u) ==
    IF u = <<>> \/ Last(u) = "/" THEN u ELSE UpToLastSlash(Front(u))

HasSlash(u) == \E i \in 1..Len(u) : u[i] = "/"

\* the URL without its empty path segments: a slash that follows a slash is
\* dropped
SquashSlashes(u) ==
    SelectSeq([i \in 1..Len(u) |-> IF i > 1 /\ u[i] = "/" /\ u[i - 1] = "/"
                                    THEN "" ELSE u[i]],
              LAMBDA tok : tok # "")

\* urllib.parse.urljoin for a relative reference without scheme, query or dot
\* segments: an empty reference gives the base as it is; otherwise the
\* reference replaces what follows the last slash of the base path, and empty
\* path segments are dropped
urljoin(base, ref) ==
    IF ref = <<>> THEN base
    ELSE IF ~HasSlash(base) THEN base \o <<"/">> \o ref
    ELSE SquashSlashes(UpToLastSlash(base) \o ref)

IndexRoute == <<"/">>

\* f"/posts/{post.slug}.html"
PostRoute(slug) == <<"/", "posts", "/", slug, ".html">>

\* a plausible slip: the base is used as configured, trailing slash or not
sitemap_base_unnormalised(base_url) == base_url \o <<"/">>

\* generate_sitemap: base = base_url.rstrip("/") + "/"
sitemap_base(base_url) == RStripSlash(base_url) \o <<"/">>

\* generate_sitemap: the <loc> entries, in order
sitemap_items(base_url, rs) ==
    [i \in 1..Len(rs) |-> urljoin(sitemap_base(base_url), LStripSlash(rs[i]))]

\* generate_robots: the Sitemap: directive
robots_sitemap(base_url) == RStripSlash(base_url) \o <<"/", "sitemap.xml">>

\* the values of base_url: unset or empty, without and with a trailing slash,
\* and with a path, without a trailing slash and with two
SiteUrl == <<"https://x.com">>
BaseUrls ==
    {<<>>, SiteUrl, SiteUrl \o <<"/">>, SiteUrl \o <<"/", "blog">>,
     SiteUrl \o <<"/", "blog", "/", "/">>}

Configs ==
    { c \in [exists : BOOLEAN, base_url : BaseUrls] :
        ~c.exists => c.base_url = <<>> }

(***************************************************************************)
(* The output directory                                                    *)
(***************************************************************************)
NoDir ==
    [exists |-> FALSE, index |-> <<>>, posts |-> {}, assets |-> FALSE,
     sitemap |-> <<>>, robots |-> <<>>, headers |-> FALSE, other |-> {}]

EmptyDir == [NoDir EXCEPT !.exists = TRUE]

\* template.render(...) of post.html and of index.html
RenderPost(post, site_title) ==
    [template |-> "post.html", post |-> post, site_title |-> site_title]

RenderIndex(ps, site_title) ==
    [template |-> "index.html", posts |-> ps, site_title |-> site_title]

\* a plausible slip: a file that exists is left as it is
WritePostKeep(dir, slug, html) ==
    [dir EXCEPT !.exists = TRUE,
                !.posts = IF \E f \in dir.posts : f.slug = slug THEN dir.posts
                          ELSE dir.posts \cup {[slug |-> slug, html |-> html]}]

\* write_file to <out>/posts/<slug>.html: an existing file is overwritten
WritePost(dir, slug, html) ==
    [dir EXCEPT !.exists = TRUE,
                !.posts = {f \in dir.posts : f.slug # slug}
                          \cup {[slug |-> slug, html |-> html]}]

\* a plausible slip: the directory is created when missing but not emptied
ensure_directory(dir) == [dir EXCEPT !.exists = TRUE]

\* ensure_empty_directory: rmtree when it exists, then mkdir
ensure_empty_directory(dir) == EmptyDir

\* an output directory left by an earlier build of some other source
StalePost ==
    [title |-> "old", slug |-> "b", date |-> 1, updated |-> Absent,
     content |-> [body |-> 1, resolved |-> {}], excerpt |-> <<"o">>,
     src |-> <<"old">>]

StaleDir ==
    [exists |-> TRUE,
     index |-> <<RenderIndex(<<StalePost>>, "old")>>,
     posts |-> {[slug |-> "b", html |-> RenderPost(StalePost, "old")],
                [slug |-> "old", html |-> RenderPost(StalePost, "old")]},
     assets |-> TRUE,
     sitemap |-> << <<SiteUrl \o <<"/", "old">> >> >>,
     robots |-> <<SiteUrl \o <<"/", "old">> >>,
     headers |-> TRUE,
     other |-> {"old.txt"}]

(***************************************************************************)
(* main, one action per step                                               *)
(***************************************************************************)
Locals == <<posts, md, todo, routes, urls, k>>

Inputs == <<tree, config>>

Raise(e) ==
    /\ err' = e
    /\ pc' = "aborted"

ConfigNotFound == "FileNotFoundError: Config file not found"

\* a plausible slip: a missing config file is read as an empty config
config_missing_tolerated(c) == FALSE

\* read_config: not config_path.exists()
config_missing(c) == ~c.exists

\* config = read_config(config_path): raises when the file does not exist
ReadConfig ==
    /\ pc = "read_config"
    /\ IF config_missing(config)
       THEN Raise(ConfigNotFound)
       ELSE pc' = "reset" /\ err' = err
    /\ UNCHANGED <<Inputs, out, Locals, outAtStart, lastOut, excerptVars>>

\* ensure_empty_directory(out_dir)
EnsureEmptyDirectory ==
    /\ pc = "reset"
    /\ out' = ensure_empty_directory(out)
    /\ pc' = "load"
    /\ UNCHANGED <<Inputs, err, Locals, outAtStart, lastOut, excerptVars>>

\* load_posts up to its for loop: no posts directory returns []
LoadPostsEnter ==
    /\ pc = "load"
    /\ posts' = <<>>
    /\ IF tree.postsDir
       THEN /\ md' = FreshMd
            /\ todo' = SortedPaths(DOMAIN tree.files)
            /\ pc' = "loop"
       ELSE /\ pc' = "index"
            /\ UNCHANGED <<md, todo>>
    /\ UNCHANGED <<Inputs, out, err, routes, urls, k, outAtStart, lastOut,
                   excerptVars>>

\* one iteration of load_posts' for loop
LoadDoc ==
    /\ pc = "loop"
    /\ todo # <<>>
    /\ LET p == Head(todo)
           doc == tree.files[p]
       IN  IF load_error(doc) # ""
           THEN Raise(load_error(doc)) /\ UNCHANGED <<posts, md>>
           ELSE IF is_draft(doc)
           THEN UNCHANGED <<posts, md, pc, err>>
           ELSE IF date_error(doc) # ""
           THEN Raise(date_error(doc)) /\ UNCHANGED <<posts, md>>
           ELSE /\ posts' = Append(posts, MakePost(p, doc, md))
                /\ md' = md_convert(md_reset(md), doc.body).state
                /\ UNCHANGED <<pc, err>>
    /\ todo' = Tail(todo)
    /\ UNCHANGED <<Inputs, out, routes, urls, k, outAtStart, lastOut,
                   excerptVars>>

\* load_posts after the loop: sort and return
LoadPostsReturn ==
    /\ pc = "loop"
    /\ todo = <<>>
    /\ posts' = SortByDateDesc(posts)
    /\ pc' = "index"
    /\ UNCHANGED <<Inputs, out, err, md, todo, routes, urls, k, outAtStart,
                   lastOut, excerptVars>>

\* routes.append(generate_index(env, posts, out_dir, site_meta))
GenerateIndex ==
    /\ pc = "index"
    /\ out' = [out EXCEPT !.exists = TRUE,
                          !.index = <<RenderIndex(posts, DefaultTitle)>>]
    /\ routes' = <<IndexRoute>>
    /\ urls' = <<>>
    /\ k' = 1
    /\ pc' = "posts"
    /\ UNCHANGED <<Inputs, err, posts, md, todo, outAtStart, lastOut,
                   excerptVars>>

\* one iteration of generate_posts' for loop
GeneratePost ==
    /\ pc = "posts"
    /\ k <= Len(posts)
    /\ out' = WritePost(out, posts[k].slug, RenderPost(posts[k], DefaultTitle))
    /\ urls' = Append(urls, PostRoute(posts[k].slug))
    /\ k' = k + 1
    /\ UNCHANGED <<Inputs, pc, err, posts, md, todo, routes, outAtStart,
                   lastOut, excerptVars>>

\* routes.extend(generate_posts(...)) once the loop is over
GeneratePostsReturn ==
    /\ pc = "posts"
    /\ k > Len(posts)
    /\ routes' = routes \o urls
    /\ pc' = "assets"
    /\ UNCHANGED <<Inputs, out, err, posts, md, todo, urls, k, outAtStart,
                   lastOut, excerptVars>>

\* copy_assets(project_root, out_dir)
CopyAssets ==
    /\ pc = "assets"
    /\ out' = IF tree.assets THEN [out EXCEPT !.assets = TRUE] ELSE out
    /\ pc' = "sitemap"
    /\ UNCHANGED <<Inputs, err, Locals, outAtStart, lastOut, excerptVars>>

\* a plausible slip: no placeholder when base_url is empty
EffectiveBaseNoFallback == config.base_url

\* the base URL main hands to generate_sitemap and generate_robots
EffectiveBase == IF config.base_url # <<>> THEN config.base_url ELSE Placeholder

GenerateSitemap ==
    /\ pc = "sitemap"
    /\ out' = [out EXCEPT !.exists = TRUE,
                          !.sitemap = <<sitemap_items(EffectiveBase, routes)>>]
    /\ pc' = "robots"
    /\ UNCHANGED <<Inputs, err, Locals, outAtStart, lastOut, excerptVars>>

GenerateRobots ==
    /\ pc = "robots"
    /\ out' = [out EXCEPT !.exists = TRUE,
                          !.robots = <<robots_sitemap(EffectiveBase)>>]
    /\ pc' = "headers"
    /\ UNCHANGED <<Inputs, err, Locals, outAtStart, lastOut, excerptVars>>

\* generate_headers(out_dir), and main returns
GenerateHeaders ==
    /\ pc = "headers"
    /\ out' = [out EXCEPT !.exists = TRUE, !.headers = TRUE]
    /\ pc' = "done"
    /\ UNCHANGED <<Inputs, err, Locals, outAtStart, lastOut, excerptVars>>

\* the script is run again on the same project
Invoke ==
    /\ pc \in {"done", "aborted"}
    /\ pc' = "read_config"
    /\ err' = ""
    /\ posts' = <<>>
    /\ md' = FreshMd
    /\ todo' = <<>>
    /\ routes' = <<>>
    /\ urls' = <<>>
    /\ k' = 1
    /\ outAtStart' = out
    /\ lastOut' = IF pc = "done" THEN <<out>> ELSE lastOut
    /\ UNCHANGED <<Inputs, out, excerptVars>>

Init ==
    /\ tree \in Trees
    /\ config \in Configs
    /\ out \in {NoDir, StaleDir}
    /\ outAtStart = out
    /\ lastOut = <<>>
    /\ pc = "read_config"
    /\ err = ""
    /\ posts = <<>>
    /\ md = FreshMd
    /\ todo = <<>>
    /\ routes = <<>>
    /\ urls = <<>>
    /\ k = 1
    /\ text = <<>>
    /\ excerpt = <<>>
    /\ epc = "off"

Next ==
    \/ ReadConfig
    \/ EnsureEmptyDirectory
    \/ LoadPostsEnter
    \/ LoadDoc
    \/ LoadPostsReturn
    \/ GenerateIndex
    \/ GeneratePost
    \/ GeneratePostsReturn
    \/ CopyAssets
    \/ GenerateSitemap
    \/ GenerateRobots
    \/ GenerateHeaders
    \/ Invoke

Spec == Init /\ [][Next]_vars

(***************************************************************************)
(* build_excerpt on its own: the texts are a run of letters, a window of   *)
(* arbitrary characters placed around the cut, and a further run           *)
(***************************************************************************)
Alphabet == {"a", " ", "\t", "\n", Ellipsis}

Fill(n) == [i \in 1..n |-> "a"]

Windows == UNION { [1..j -> Alphabet] : j \in 0..MaxWin }

Leads == {0} \cup ((DefaultLength - MaxWin - 1)..DefaultLength)

Texts == { Fill(n) \o w \o Fill(m) : n \in Leads, w \in Windows, m \in 0..MaxWin }

InitExcerpt ==
    /\ tree = [postsDir |-> FALSE, assets |-> FALSE, files |-> <<>>]
    /\ config = [exists |-> FALSE, base_url |-> <<>>]
    /\ out = NoDir
    /\ outAtStart = NoDir
    /\ lastOut = <<>>
    /\ pc = "off"
    /\ err = ""
    /\ posts = <<>>
    /\ md = FreshMd
    /\ todo = <<>>
    /\ routes = <<>>
    /\ urls = <<>>
    /\ k = 1
    /\ text \in Texts
    /\ excerpt = <<>>
    /\ epc = "call"

\* excerpt = build_excerpt(post_data.content)
BuildExcerpt ==
    /\ epc = "call"
    /\ excerpt' = <<build_excerpt(text, DefaultLength)>>
    /\ epc' = "return"
    /\ UNCHANGED <<text, buildVars>>

NextExcerpt == BuildExcerpt

SpecExcerpt == InitExcerpt /\ [][NextExcerpt]_vars

(***************************************************************************)
(* Notions the properties are stated in                                    *)
(***************************************************************************)
Files == tree.files

\* the documents frontmatter.load cannot parse
BrokenPaths == {p \in DOMAIN Files : ~Files[p].wellformed}

DraftPaths == {p \in DOMAIN Files : Files[p].wellformed /\ Files[p].draft}

\* the documents that are not drafts
LivePaths == DOMAIN Files \ (DraftPaths \cup BrokenPaths)

Range(s) == {s[i] : i \in 1..Len(s)}

\* main holds the list load_posts returned
Loaded == pc \in {"index", "posts", "assets", "sitemap", "robots", "headers", "done"}

\* the sitemap of this build is on disk
SitemapWritten == pc \in {"robots", "headers", "done"}

Slugs(ps) == {ps[i].slug : i \in 1..Len(ps)}

\* the slug the document at p has or would have
DocSlug(p) == IF Files[p].slug # "" THEN Files[p].slug ELSE Stem(p)

\* C1: a document marked as a draft is in no Post list, in no rendered post
\* page, in no posts list given to the index template, and adds no route: the
\* routes handed to the sitemap are the index route and one route per Post,
\* none of them made from a draft.
DraftsExcludedEverywhere ==
    \A p \in DraftPaths :
        /\ \A i \in 1..Len(posts) : posts[i].src # p
        /\ \A f \in out.posts : f.html.post.src # p
        /\ out.index # <<>> => \A q \in Range(out.index[1].posts) : q.src # p
        /\ pc \in {"sitemap", "robots", "headers", "done"} =>
              /\ Len(routes) = 1 + Cardinality(LivePaths)
              /\ \A i \in 1..Len(posts) :
                    routes[i + 1] = PostRoute(posts[i].slug) /\ posts[i].src \in LivePaths
              /\ DocSlug(p) \notin Slugs(posts) =>
                    PostRoute(DocSlug(p)) \notin Range(routes)
        /\ SitemapWritten => Len(out.sitemap[1]) = 1 + Cardinality(LivePaths)

\* a completed build of a tree holding a draft and a published document
DraftSkippedInBuild ==
    /\ pc = "done"
    /\ DraftPaths # {}
    /\ posts # <<>>

\* C2: the list load_posts returns holds every non-draft document once, by
\* date descending, and posts of one date in the order of their paths.
PostsSortedStable ==
    Loaded =>
        /\ {posts[i].src : i \in 1..Len(posts)} = LivePaths
        /\ Len(posts) = Cardinality(LivePaths)
        /\ \A i, j \in 1..Len(posts) :
              i < j => \/ posts[i].date > posts[j].date
                       \/ /\ posts[i].date = posts[j].date
                          /\ PathLess(posts[i].src, posts[j].src)

\* load_posts returned two posts of one date
TiedPostsLoaded ==
    /\ pc = "index"
    /\ Len(posts) = 2
    /\ posts[1].date = posts[2].date

\* what "whitespace-collapsed and trimmed" asks of plain, for the text t
IsCollapsedOf(plain, t) ==
    /\ SelectSeq(plain, LAMBDA c : ~IsSpace(c)) = SelectSeq(t, LAMBDA c : ~IsSpace(c))
    /\ \A i \in 1..Len(plain) :
          IsSpace(plain[i]) =>
              /\ plain[i] = " "
              /\ 1 < i /\ i < Len(plain)
              /\ ~IsSpace(plain[i + 1])

\* C3 as stated: the excerpt has at most 140 characters; a collapsed text of
\* more than 140 characters gives an excerpt ending with the ellipsis whose
\* part before the ellipsis has exactly 139 characters; a collapsed text of at
\* most 140 characters is the excerpt.
ExcerptCutIs139 ==
    epc = "return" =>
        LET plain == Collapse(text)
            e == excerpt[1]
        IN  /\ Len(e) <= DefaultLength
            /\ Len(plain) > DefaultLength =>
                  Last(e) = Ellipsis /\ Len(Front(e)) = DefaultLength - 1
            /\ Len(plain) <= DefaultLength => e = plain

\* C3, amended: the part before the ellipsis is the first 139 characters of
\* the collapsed text without trailing whitespace: 139 characters, or 138 when
\* the 139th character of the collapsed text is a space.
ExcerptCutIs139Or138 ==
    epc = "return" =>
        LET plain == Collapse(text)
            e == excerpt[1]
        IN  /\ IsCollapsedOf(plain, text)
            /\ Len(e) <= DefaultLength
            /\ Len(plain) > DefaultLength =>
                  /\ Last(e) = Ellipsis
                  /\ Front(e) = SubSeq(plain, 1,
                         IF plain[DefaultLength - 1] = " " THEN DefaultLength - 2
                         ELSE DefaultLength - 1)
            /\ Len(plain) <= DefaultLength => e = plain

\* build_excerpt returned for a long text whose 139th character is a space
ExcerptCutAtSpace ==
    /\ epc = "return"
    /\ Len(Collapse(text)) > DefaultLength
    /\ Collapse(text)[DefaultLength - 1] = " "

\* the Posts of the tree, stated from the documents: one per non-draft
\* document, each converted on its own
PostOf(p) ==
    [title   |-> IF Files[p].title # "" THEN Files[p].title ELSE Stem(p),
     slug    |-> DocSlug(p),
     date    |-> Files[p].date,
     updated |-> Files[p].updated,
     content |-> [body |-> Files[p].body,
                  resolved |-> BodyUses(Files[p].body) \cap BodyDefs(Files[p].body)],
     excerpt |-> Collapse(BodyText(Files[p].body)),
     src     |-> p]

\* p comes before q in the list load_posts returns
Before(p, q) ==
    \/ Files[p].date > Files[q].date
    \/ Files[p].date = Files[q].date /\ PathLess(p, q)

\* the page at posts/<slug>.html: of the documents with this slug, the one
\* that comes last in the list
PageOwner(slug) ==
    CHOOSE p \in LivePaths :
        /\ DocSlug(p) = slug
        /\ \A q \in LivePaths \ {p} : DocSlug(q) = slug => Before(q, p)

\* the base URL without trailing slashes: the configured one, or the
\* placeholder when none is configured
SiteBase ==
    RStripSlash(IF config.base_url = <<>> THEN Placeholder ELSE config.base_url)

\* the output directory a completed build leaves, stated from the tree and
\* the config alone
BuildOutput ==
    LET ordered == CHOOSE ps \in [1..Cardinality(LivePaths) -> LivePaths] :
                       \A i, j \in DOMAIN ps : i < j => Before(ps[i], ps[j])
        listed == [i \in DOMAIN ordered |-> PostOf(ordered[i])]
    IN  [exists  |-> TRUE,
         index   |-> <<RenderIndex(listed, DefaultTitle)>>,
         posts   |-> {[slug |-> sl, html |-> RenderPost(PostOf(PageOwner(sl)), DefaultTitle)] :
                        sl \in {DocSlug(p) : p \in LivePaths}},
         assets  |-> tree.assets,
         sitemap |-> <<[i \in 1..(Len(listed) + 1) |->
                          SiteBase \o (IF i = 1 THEN IndexRoute
                                       ELSE PostRoute(listed[i - 1].slug))]>>,
         robots  |-> <<SiteBase \o <<"/", "sitemap.xml">> >>,
         headers |-> TRUE,
         other   |-> {}]

\* C4: after a completed build the output directory is what the tree and the
\* config determine, whatever it held before, and equals the output of the
\* build completed before it.
OutputDerivedFromSourceAndConfig ==
    pc = "done" =>
        /\ out = BuildOutput
        /\ lastOut # <<>> => out = lastOut[1]

\* a build completed over the leftovers of an earlier build of another source
BuiltOverStaleOutput ==
    /\ pc = "done"
    /\ outAtStart = StaleDir
    /\ posts # <<>>

\* C5 as stated: after a completed build there are as many files under
\* posts/ as Posts, and each Post's file holds the rendering of that Post.
OnePageForEachPost ==
    pc = "done" =>
        /\ Cardinality(out.posts) = Len(posts)
        /\ \A i \in 1..Len(posts) :
              [slug |-> posts[i].slug, html |-> RenderPost(posts[i], DefaultTitle)]
                  \in out.posts

\* C5, amended: there is one file under posts/ for each distinct slug of the
\* Posts, holding the rendering of the last Post of the list with that slug;
\* when the slugs are pairwise distinct that is one file per Post, each
\* holding its own Post.
OnePageForEachSlug ==
    pc = "done" =>
        /\ {f.slug : f \in out.posts} = Slugs(posts)
        /\ Cardinality(out.posts) = Cardinality(Slugs(posts))
        /\ \A f \in out.posts :
              \E i \in 1..Len(posts) :
                  /\ posts[i].slug = f.slug
                  /\ f.html = RenderPost(posts[i], DefaultTitle)
                  /\ \A j \in (i + 1)..Len(posts) : posts[j].slug # f.slug
        /\ Cardinality(Slugs(posts)) = Len(posts) =>
              /\ Cardinality(out.posts) = Len(posts)
              /\ \A i \in 1..Len(posts) :
                    [slug |-> posts[i].slug, html |-> RenderPost(posts[i], DefaultTitle)]
                        \in out.posts

\* a completed build of two Posts with one slug
BuiltWithSlugCollision ==
    /\ pc = "done"
    /\ Len(posts) = 2
    /\ posts[1].slug = posts[2].slug

NoDoubleSlash(u) == \A i \in 1..(Len(u) - 1) : ~(u[i] = "/" /\ u[i + 1] = "/")

\* C6: the sitemap has one entry per route, in the order of the routes: the
\* index route, then the route of each Post in list order; each entry is the
\* base URL without its trailing slashes followed by the route, which starts
\* with its one slash.
SitemapFollowsRoutes ==
    SitemapWritten =>
        LET locs == out.sitemap[1]
        IN  /\ Len(locs) = Len(routes)
            /\ routes = <<IndexRoute>> \o [i \in 1..Len(posts) |-> PostRoute(posts[i].slug)]
            /\ \A i \in 1..Len(locs) :
                  /\ locs[i] = SiteBase \o routes[i]
                  /\ NoDoubleSlash(locs[i])

\* a completed build with posts and a base URL that ends with a slash
BuiltWithTrailingSlashBase ==
    /\ pc = "done"
    /\ config.base_url # <<>>
    /\ Last(config.base_url) = "/"
    /\ posts # <<>>

\* the non-draft documents without a date field
UndatedPaths == {p \in LivePaths : Files[p].date = Absent}

\* the non-draft documents whose date or updated value strptime rejects
UnparsablePaths ==
    {p \in LivePaths : Files[p].date # Absent /\
                       (Files[p].date = Malformed \/ Files[p].updated = Malformed)}

Rendering == pc \in {"index", "posts", "assets", "sitemap", "robots", "headers"}

\* C7 as stated: with a non-draft document lacking a date, a build that gets
\* past the config ends in load_posts with the validation error, the output
\* directory empty, and neither renders nor completes.
MissingDateAbortsWithValidationError ==
    (UndatedPaths # {} /\ config.exists) =>
        /\ ~Rendering
        /\ pc # "done"
        /\ pc = "aborted" => err = MissingDate /\ out = EmptyDir

\* the document load_posts raises on: the first in path order that cannot be
\* parsed, or is not a draft and has no date or a malformed date or updated
FirstFailing ==
    LET failing == BrokenPaths \cup UndatedPaths \cup UnparsablePaths
    IN  CHOOSE p \in failing : \A q \in failing \ {p} : PathLess(p, q)

\* C7, amended: a build that reaches load_posts ends there, the output
\* directory empty, with the validation error, or with the error of a
\* document discovered before every undated one that fails first (front
\* matter that does not parse, a malformed date or updated).
MissingDateAbortsInLoadPosts ==
    UndatedPaths # {} =>
        /\ ~Rendering
        /\ pc # "done"
        /\ (pc = "aborted" /\ config.exists) =>
              /\ out = EmptyDir
              /\ err = (IF FirstFailing \in UndatedPaths THEN MissingDate
                        ELSE IF FirstFailing \in BrokenPaths THEN FrontMatterError
                        ELSE BadDate)

\* load_posts raised on a document without a date after it had made a Post
AbortedOnLaterUndatedDocument ==
    /\ pc = "aborted"
    /\ err = MissingDate
    /\ posts # <<>>

\* C8: without a config file main ends with the configuration error in
\* read_config, and the output directory stays what it was at the invocation.
MissingConfigTouchesNothing ==
    ~config.exists =>
        /\ pc \in {"read_config", "aborted"}
        /\ out = outAtStart
        /\ pc = "aborted" => err = ConfigNotFound

\* main ended on the missing config file over an earlier build's output
AbortedOnMissingConfig ==
    /\ pc = "aborted"
    /\ ~config.exists
    /\ out = StaleDir

\* the URLs of the artifacts that start with the base b
BuiltFrom(b) ==
    /\ \A u \in Range(out.sitemap[1]) : SubSeq(u, 1, Len(b)) = b
    /\ SubSeq(out.robots[1], 1, Len(b)) = b

\* C9: a completed build has written sitemap.xml, robots.txt and _headers;
\* without a base_url their URLs are built from the placeholder, with one
\* they are built from it and the placeholder is in none of them.
ArtifactsAlwaysWritten ==
    pc = "done" =>
        /\ out.sitemap # <<>> /\ out.robots # <<>> /\ out.headers
        /\ Len(out.sitemap[1]) = Len(posts) + 1
        /\ out.robots[1] = SiteBase \o <<"/", "sitemap.xml">>
        /\ config.base_url = <<>> => BuiltFrom(Placeholder \o <<"/">>)
        /\ config.base_url # <<>> =>
              /\ BuiltFrom(RStripSlash(config.base_url) \o <<"/">>)
              /\ \A u \in Range(out.sitemap[1]) \cup {out.robots[1]} :
                    Head(Placeholder) \notin Range(u)

\* a completed build without posts and without a base_url, started on a
\* directory that did not exist
BuiltWithoutPostsAndBaseUrl ==
    /\ pc = "done"
    /\ posts = <<>>
    /\ config.base_url = <<>>
    /\ outAtStart = NoDir

\* C10: the content of every Post is the conversion of its document by a
\* fresh converter, and what the converter holds after a conversion are the
\* definitions of that document alone.
ConvertedInIsolation ==
    /\ \A i \in 1..Len(posts) :
          posts[i].content = md_convert(FreshMd, Files[posts[i].src].body).html
    /\ pc = "loop" =>
          md = (IF posts = <<>> THEN FreshMd
                ELSE md_convert(FreshMd, Files[Last(posts).src].body).state)

\* a document that uses a link reference was converted after a document that
\* defines it
ConvertedAfterDefiningDocument ==
    /\ pc = "loop"
    /\ Len(posts) = 2
    /\ BodyDefs(Files[posts[1].src].body) \cap BodyUses(Files[posts[2].src].body) # {}

====
